---------------------------- MODULE Spec2Model ----------------------------
(***************************************************************************)
(* A model of src/indices.py: the drought-index drivers spei_gamma,        *)
(* spei_pearson, percentage_of_normal and the PET helper pet.              *)
(*                                                                         *)
(* One call of one driver is one behaviour: Init draws the driver and its  *)
(* arguments, the driver's action runs the whole function body and leaves  *)
(* the outcome (returned value or raised exception), the ordered list of   *)
(* collaborator calls it made, and the locals the properties speak about.  *)
(*                                                                         *)
(* Conventions                                                             *)
(*  - a float is a pair <<n, d>>: the rational n/d in lowest terms with    *)
(*    d > 0; NaN is <<0, 0>>.  float64 rounding is not modelled.           *)
(*  - an optional argument is a tuple of length 0 (None) or 1 (<<v>>).     *)
(*    `x != None` in the source is the presence test the code intends.     *)
(*  - the numba @jit decorators are not modelled: the bodies are read as   *)
(*    the Python they are written in.                                      *)
(*  - compute.sum_to_scale is not in src/ and is modelled from spec.md     *)
(*    section 4.1; thornthwaite.potential_evapotranspiration and the       *)
(*    compute.transform_fitted_* functions are external: what they return  *)
(*    is a nondeterministic choice.                                        *)
(***************************************************************************)
EXTENDS Integers, Sequences, FiniteSets

VARIABLES fn, args, pc, ret, calls, locals

vars == <<fn, args, pc, ret, calls, locals>>

---------------------------------------------------------------------------
(* Bounds of the model *)

\* longest precipitation / PET / temperature array given to spei_* and pet
MaxArr == 2
\* largest months_scale
MaxScale == 3
\* whole years of data in the longest percentage_of_normal series
MaxYears == 2
\* most elements a fitter returns beyond the input's length
MaxPad == 1

---------------------------------------------------------------------------
(* Floats *)

NaN == <<0, 0>>

F(n) == <<n, 1>>

IsNaN(x) == x = NaN

Abs(n) == IF n < 0 THEN -n ELSE n

RECURSIVE GCD(_, _)
GCD(a, b) == IF b = 0 THEN a ELSE GCD(b, a % b)

\* n/d in lowest terms, d > 0
Norm(n, d) ==
    LET g == GCD(Abs(n), d)
    IN  <<(IF n < 0 THEN -(Abs(n) \div g) ELSE n \div g), d \div g>>

FAdd(x, y) ==
    IF IsNaN(x) \/ IsNaN(y) THEN NaN
    ELSE Norm(x[1] * y[2] + y[1] * x[2], x[2] * y[2])

FSub(x, y) ==
    IF IsNaN(x) \/ IsNaN(y) THEN NaN
    ELSE Norm(x[1] * y[2] - y[1] * x[2], x[2] * y[2])

\* x / y; a zero divisor gives numpy's inf (<<1,0>>, <<-1,0>>) or NaN (0/0)
FDiv(x, y) ==
    IF IsNaN(x) \/ IsNaN(y) THEN NaN
    ELSE IF y[1] = 0
         THEN <<(IF x[1] > 0 THEN 1 ELSE IF x[1] < 0 THEN -1 ELSE 0), 0>>
    ELSE IF y[1] < 0 THEN Norm(-(x[1] * y[2]), x[2] * (-y[1]))
    ELSE Norm(x[1] * y[2], x[2] * y[1])

\* x > y, x < y: false when either side is NaN
FGt(x, y) == ~IsNaN(x) /\ ~IsNaN(y) /\ x[1] * y[2] > y[1] * x[2]

FLt(x, y) == FGt(y, x)

---------------------------------------------------------------------------
(* Optional arguments, outcomes *)

None == <<>>

Some(v) == <<v>>

Return(v, c, l) ==
    [exc |-> "none", msg |-> "", value |-> v, calls |-> c, locals |-> l]

Raise(e, m, c) ==
    [exc |-> e, msg |-> m, value |-> <<>>, calls |-> c, locals |-> <<>>]

NoRet == [exc |-> "pending", msg |-> "", value |-> <<>>]

---------------------------------------------------------------------------
(* numpy helpers *)

Min(a, b) == IF a < b THEN a ELSE b

Max(a, b) == IF a > b THEN a ELSE b

\* np.all(np.isnan(a)): true of the empty array
AllNaN(a) == \A i \in 1..Len(a) : IsNaN(a[i])

\* a[s:e] with Python's slice rules: a negative bound counts from the end,
\* bounds are clamped to 0..len, an empty range gives the empty array
PyBound(i, n) == IF i < 0 THEN Max(i + n, 0) ELSE Min(i, n)

PySlice(a, s, e) ==
    LET lo == PyBound(s, Len(a))
        hi == PyBound(e, Len(a))
    IN  IF hi <= lo THEN <<>> ELSE SubSeq(a, lo + 1, hi)

\* a[i::step], i >= 0
PyStride(a, i, step) ==
    IF i >= Len(a) THEN <<>>
    ELSE [k \in 1..(((Len(a) - 1 - i) \div step) + 1) |-> a[i + (k - 1) * step + 1]]

RECURSIVE NanSum(_, _)
\* the sum of the non-NaN elements a[1..k] (an integer pair <<sum, count>>
\* is not enough: elements are rationals)
NanSum(a, k) ==
    IF k = 0 THEN F(0)
    ELSE IF IsNaN(a[k]) THEN NanSum(a, k - 1)
    ELSE FAdd(NanSum(a, k - 1), a[k])

NanCount(a) == Cardinality({i \in 1..Len(a) : ~IsNaN(a[i])})

\* np.nanmean(a): the mean of the non-NaN elements, NaN when there is none
NanMean(a) ==
    IF NanCount(a) = 0 THEN NaN ELSE FDiv(NanSum(a, Len(a)), F(NanCount(a)))

\* np.clip(a, lo, hi): NaN stays NaN
Clip(a, lo, hi) ==
    [i \in 1..Len(a) |->
        IF FLt(a[i], lo) THEN lo ELSE IF FGt(a[i], hi) THEN hi ELSE a[i]]

---------------------------------------------------------------------------
(* Program constants *)

_FITTED_INDEX_VALID_MIN == <<-309, 100>>

_FITTED_INDEX_VALID_MAX == <<309, 100>>

MonthsPerYear == 12

PetOffset == 1000

LatitudeLimit == 90

---------------------------------------------------------------------------
(* Collaborators *)

RECURSIVE WindowSum(_, _, _)
\* a[i] + a[i-1] + ... over k elements; NaN if any of them is NaN
WindowSum(a, i, k) ==
    IF k = 0 THEN F(0) ELSE FAdd(WindowSum(a, i - 1, k - 1), a[i])

\* compute.sum_to_scale (spec.md 4.1): the first scale-1 entries are NaN, entry
\* i is the sum of the trailing `scale` entries ending at i
sum_to_scale(values, scale) ==
    [i \in 1..Len(values) |->
        IF i < scale THEN NaN ELSE WindowSum(values, i, scale)]

---------------------------------------------------------------------------
(* pet, src/indices.py 468-497.  tw is what the Thornthwaite collaborator does
   when called: None if it raises, Some(array) if it returns. *)

\* mutant: the bounds -90.0 and 90.0 are accepted
ValidLatitudeInclusive(latitude) ==
    /\ ~IsNaN(latitude)
    /\ ~FGt(latitude, F(LatitudeLimit))
    /\ ~FLt(latitude, F(-LatitudeLimit))

\* line 484
ValidLatitude(latitude) ==
    /\ ~IsNaN(latitude)
    /\ FLt(latitude, F(LatitudeLimit))
    /\ FGt(latitude, F(-LatitudeLimit))

\* line 487: the call of the Thornthwaite collaborator, with what it was given
\* and what it gave back
Thornthwaite(temperature_monthly_celsius, latitude_degrees, data_start_year, tw) ==
    IF tw = None
    THEN Raise("CollaboratorError", "thornthwaite", <<"thornthwaite">>)
    ELSE Return(tw[1], <<"thornthwaite">>,
                [thornthwaite_args |-> <<temperature_monthly_celsius,
                                         latitude_degrees, data_start_year>>,
                 thornthwaite_result |-> tw[1]])

\* mutant: the latitude is validated after the Thornthwaite call
petValidatesLate(temperature_monthly_celsius, latitude_degrees, data_start_year, tw) ==
    IF ~AllNaN(temperature_monthly_celsius)
    THEN IF latitude_degrees = None
         THEN Raise("TypeError", "isnan", <<>>)
         ELSE IF tw = None
         THEN Raise("CollaboratorError", "thornthwaite", <<"thornthwaite">>)
         ELSE IF ValidLatitude(latitude_degrees[1])
         THEN Thornthwaite(temperature_monthly_celsius, latitude_degrees,
                           data_start_year, tw)
         ELSE Raise("ValueError", "InvalidLatitude", <<"thornthwaite">>)
    ELSE Return(temperature_monthly_celsius, <<>>, <<>>)

\* mutant: the latitude is validated before the temperatures are looked at
petValidatesFirst(temperature_monthly_celsius, latitude_degrees, data_start_year, tw) ==
    IF latitude_degrees = None
    THEN Raise("TypeError", "isnan", <<>>)
    ELSE IF ~ValidLatitude(latitude_degrees[1])
    THEN Raise("ValueError", "InvalidLatitude", <<>>)
    ELSE IF ~AllNaN(temperature_monthly_celsius)
    THEN Thornthwaite(temperature_monthly_celsius, latitude_degrees,
                      data_start_year, tw)
    ELSE Return(temperature_monthly_celsius, <<>>, <<>>)

pet(temperature_monthly_celsius, latitude_degrees, data_start_year, tw) ==
    IF ~AllNaN(temperature_monthly_celsius)
    THEN IF latitude_degrees = None
         THEN \* np.isnan(None)
              Raise("TypeError", "isnan", <<>>)
         ELSE IF ValidLatitude(latitude_degrees[1])
         THEN Thornthwaite(temperature_monthly_celsius, latitude_degrees,
                           data_start_year, tw)
         ELSE Raise("ValueError", "InvalidLatitude", <<>>)
    ELSE Return(temperature_monthly_celsius, <<>>, <<>>)

\* the call of pet from a driver: the helper's outcome with the call recorded
PetFromDriver(temps, latitude_degrees, data_start_year, tw) ==
    LET r == pet(temps, latitude_degrees, data_start_year, tw)
    IN  [r EXCEPT !.calls = <<"pet">> \o r.calls]

---------------------------------------------------------------------------
(* spi_gamma and spi_pearson, src/indices.py 25-49 and 53-90.  fit is what the
   transform does when called: None if it raises, Some(array) if it returns. *)

\* mutant: the clipped array is returned whole
NotCut(a, original_length) == a

\* lines 49, 90, 194, 309: spi[0:original_length]
CutToOriginalLength(a, original_length) == PySlice(a, 0, original_length)

\* mutant: np.clip without the upper bound
ClipBelowOnly(a, lo, hi) ==
    [i \in 1..Len(a) |-> IF FLt(a[i], lo) THEN lo ELSE a[i]]

\* lines 46, 87, 191, 306: np.clip(...).flatten()
ClipToValidRange(a, lo, hi) == Clip(a, lo, hi)

\* lines 36-49 and 70-90: scale, fit, clip, cut to the input's length
SpiPipeline(precips, months_scale, fitter, fit) ==
    LET original_length == Len(precips)
        scaled_precips == sum_to_scale(precips, months_scale)
        made == <<"sum_to_scale", fitter>>
    IN  IF fit = None
        THEN Raise("CollaboratorError", fitter, made)
        ELSE LET spi == ClipToValidRange(fit[1], _FITTED_INDEX_VALID_MIN,
                                         _FITTED_INDEX_VALID_MAX)
             IN  Return(CutToOriginalLength(spi, original_length), made,
                        [scaled_values |-> scaled_precips,
                         transformed_fitted_values |-> fit[1]])

spi_gamma(precips, months_scale, fit) ==
    SpiPipeline(precips, months_scale, "transform_fitted_gamma", fit)

spi_pearson(precips, months_scale, data_start_year, calibration_year_initial, calibration_year_final, fit) ==
    SpiPipeline(precips, months_scale, "transform_fitted_pearson", fit)

---------------------------------------------------------------------------
(* spei_gamma and spei_pearson, src/indices.py 94-194 and 198-309 *)

\* numpy broadcasting of two 1-D arrays: equal sizes, or one of size 1
Broadcastable(a, b) == Len(a) = Len(b) \/ Len(a) = 1 \/ Len(b) = 1

At(a, i) == IF Len(a) = 1 THEN a[1] ELSE a[i]

\* (precips_mm - pet_mm) + 1000.0, elementwise
PMinusPet(precips_mm, pet_mm) ==
    [i \in 1..Max(Len(precips_mm), Len(pet_mm)) |->
        FAdd(FSub(At(precips_mm, i), At(pet_mm, i)), F(PetOffset))]

\* lines 178-194 and 286-309: subtract, scale, fit, clip, cut to the input's
\* length.  done: the collaborator calls made so far; fitter: the transform's
\* name; fit: what it does (None: raises, Some(array): returns)
SpeiPipeline(months_scale, precips_mm, pet_mm, done, fitter, fit) ==
    IF pet_mm = None
    THEN \* ndarray - None
         Raise("TypeError", "subtract", done)
    ELSE IF ~Broadcastable(precips_mm, pet_mm[1])
    THEN Raise("ValueError", "Broadcast", done)
    ELSE LET p_minus_pet == PMinusPet(precips_mm, pet_mm[1])
             original_length == Len(precips_mm)
             scaled_values == sum_to_scale(p_minus_pet, months_scale)
             made == done \o <<"sum_to_scale", fitter>>
         IN  IF fit = None
             THEN Raise("CollaboratorError", fitter, made)
             ELSE LET spei == ClipToValidRange(fit[1], _FITTED_INDEX_VALID_MIN,
                                               _FITTED_INDEX_VALID_MAX)
                  IN  Return(CutToOriginalLength(spei, original_length),
                             made,
                             [p_minus_pet |-> p_minus_pet,
                              scaled_values |-> scaled_values,
                              transformed_fitted_values |-> fit[1]])

\* lines 133, 241
HasTemps(temps_celsius) == temps_celsius # None

\* mutant: the PET-with-temperature test left out
PetWithTempsDropped(pet_mm) == FALSE

\* lines 136, 244
PetWithTemps(pet_mm) == pet_mm # None

\* lines 157, 265
HasPet(pet_mm) == pet_mm # None

\* lines 160, 268
TempsWithPet(temps_celsius) == temps_celsius # None

\* mutant: only a longer precipitation array is refused
SizesDifferOneWay(a, b) == Len(a) > Len(b)

\* lines 149, 173, 257, 281: a.size != b.size
SizesDiffer(a, b) == Len(a) # Len(b)

\* mutant: the start year is not required (spei_pearson's test)
GammaMissingLatitudeOnly(latitude_degrees, data_start_year) ==
    latitude_degrees = None

\* line 142
GammaMissing(latitude_degrees, data_start_year) ==
    (latitude_degrees = None) \/ (data_start_year = None)

\* mutant: the start year is not refused (spei_pearson's test)
GammaExtraneousLatitudeOnly(latitude_degrees, data_start_year) ==
    latitude_degrees # None

\* line 166
GammaExtraneous(latitude_degrees, data_start_year) ==
    (latitude_degrees # None) \/ (data_start_year # None)

spei_gamma(months_scale, precips_mm, pet_mm, temps_celsius, data_start_year, latitude_degrees, tw, fit) ==
    IF HasTemps(temps_celsius)
    THEN IF PetWithTemps(pet_mm)
         THEN Raise("ValueError", "IncompatibleArguments", <<>>)
         ELSE IF GammaMissing(latitude_degrees, data_start_year)
         THEN Raise("ValueError", "MissingArguments", <<>>)
         ELSE IF SizesDiffer(precips_mm, temps_celsius[1])
         THEN Raise("ValueError", "IncompatibleArrays", <<>>)
         ELSE LET p == PetFromDriver(temps_celsius[1], latitude_degrees,
                               data_start_year, tw)
              IN  IF p.exc # "none" THEN p
                  ELSE SpeiPipeline(months_scale, precips_mm, Some(p.value),
                                    p.calls, "transform_fitted_gamma", fit)
    ELSE IF HasPet(pet_mm)
    THEN IF TempsWithPet(temps_celsius)
         THEN Raise("ValueError", "IncompatibleArguments", <<>>)
         ELSE IF GammaExtraneous(latitude_degrees, data_start_year)
         THEN Raise("ValueError", "ExtraneousArguments", <<>>)
         ELSE IF SizesDiffer(precips_mm, pet_mm[1])
         THEN Raise("ValueError", "IncompatibleArrays", <<>>)
         ELSE SpeiPipeline(months_scale, precips_mm, pet_mm, <<>>,
                           "transform_fitted_gamma", fit)
    ELSE SpeiPipeline(months_scale, precips_mm, pet_mm, <<>>,
                      "transform_fitted_gamma", fit)

\* line 250
PearsonMissing(latitude_degrees, data_start_year) ==
    latitude_degrees = None

\* mutant: the start year is refused too (spei_gamma's test)
PearsonExtraneousLikeGamma(latitude_degrees, data_start_year) ==
    (latitude_degrees # None) \/ (data_start_year # None)

\* line 274
PearsonExtraneous(latitude_degrees, data_start_year) ==
    latitude_degrees # None

spei_pearson(months_scale, data_start_year, precips_mm, pet_mm, temps_celsius, latitude_degrees, tw, fit) ==
    IF HasTemps(temps_celsius)
    THEN IF PetWithTemps(pet_mm)
         THEN Raise("ValueError", "IncompatibleArguments", <<>>)
         ELSE IF PearsonMissing(latitude_degrees, data_start_year)
         THEN Raise("ValueError", "MissingArguments", <<>>)
         ELSE IF SizesDiffer(precips_mm, temps_celsius[1])
         THEN Raise("ValueError", "IncompatibleArrays", <<>>)
         ELSE LET p == PetFromDriver(temps_celsius[1], latitude_degrees,
                               data_start_year, tw)
              IN  IF p.exc # "none" THEN p
                  ELSE SpeiPipeline(months_scale, precips_mm, Some(p.value),
                                    p.calls, "transform_fitted_pearson", fit)
    ELSE IF HasPet(pet_mm)
    THEN IF TempsWithPet(temps_celsius)
         THEN Raise("ValueError", "IncompatibleArguments", <<>>)
         ELSE IF PearsonExtraneous(latitude_degrees, data_start_year)
         THEN Raise("ValueError", "ExtraneousArguments", <<>>)
         ELSE IF SizesDiffer(precips_mm, pet_mm[1])
         THEN Raise("ValueError", "IncompatibleArrays", <<>>)
         ELSE SpeiPipeline(months_scale, precips_mm, pet_mm, <<>>,
                           "transform_fitted_pearson", fit)
    ELSE SpeiPipeline(months_scale, precips_mm, pet_mm, <<>>,
                      "transform_fitted_pearson", fit)

---------------------------------------------------------------------------
(* percentage_of_normal, src/indices.py 409-465 *)

\* line 432
CalibrationBeforeData(data_start_year, calibration_start_year) ==
    data_start_year > calibration_start_year

\* mutant: a calibration span equal to the data length is refused
CalibrationExceedsDataOrEqual(size, calibration_start_year, calibration_end_year) ==
    ((calibration_end_year - calibration_start_year + 1) * MonthsPerYear) >= size

\* line 434
CalibrationExceedsData(size, calibration_start_year, calibration_end_year) ==
    ((calibration_end_year - calibration_start_year + 1) * MonthsPerYear) > size

\* mutant: np.mean in place of np.nanmean (a NaN makes the mean NaN)
CalendarMonthMean(calibration_period_sums, i) ==
    LET a == PyStride(calibration_period_sums, i, MonthsPerYear)
    IN  IF Len(a) = 0 \/ \E k \in 1..Len(a) : IsNaN(a[k]) THEN NaN
        ELSE FDiv(NanSum(a, Len(a)), F(Len(a)))

\* line 452, for calendar month i in 0..11
CalendarMonthAverage(calibration_period_sums, i) ==
    NanMean(PyStride(calibration_period_sums, i, MonthsPerYear))

\* mutant: the divisor is tested for != 0.0 only
PercentageAtNonZero(scale_sum, average) ==
    IF ~IsNaN(average) /\ average[1] # 0 THEN FDiv(scale_sum, average) ELSE NaN

\* lines 457-463, one element: NaN unless the calendar month's average is > 0.0
PercentageAt(scale_sum, average) ==
    IF FGt(average, F(0)) THEN FDiv(scale_sum, average) ELSE NaN

percentage_of_normal(monthly_values, months_scale, data_start_year, calibration_start_year, calibration_end_year) ==
    IF CalibrationBeforeData(data_start_year, calibration_start_year)
    THEN Raise("ValueError", "InvalidStartYear", <<>>)
    ELSE IF CalibrationExceedsData(Len(monthly_values), calibration_start_year, calibration_end_year)
    THEN Raise("ValueError", "InvalidCalibrationPeriod", <<>>)
    ELSE LET months_scale_sums == sum_to_scale(monthly_values, months_scale)
             calibration_years == calibration_end_year - calibration_start_year + 1
             calibration_start_index ==
                 (calibration_start_year - data_start_year) * MonthsPerYear
             calibration_end_index ==
                 calibration_start_index + (calibration_years * MonthsPerYear)
             calibration_period_sums ==
                 PySlice(months_scale_sums, calibration_start_index,
                         calibration_end_index)
             \* element m+1 is calendar month m
             calendar_month_averages ==
                 [m \in 1..MonthsPerYear |->
                     CalendarMonthAverage(calibration_period_sums, m - 1)]
             percentages_of_normal ==
                 [i \in 1..Len(months_scale_sums) |->
                     PercentageAt(months_scale_sums[i],
                         calendar_month_averages[((i - 1) % MonthsPerYear) + 1])]
         IN  Return(percentages_of_normal, <<"sum_to_scale">>,
                    [months_scale_sums |-> months_scale_sums,
                     calibration_start_index |-> calibration_start_index,
                     calibration_end_index |-> calibration_end_index,
                     calibration_period_sums |-> calibration_period_sums,
                     calendar_month_averages |-> calendar_month_averages])

---------------------------------------------------------------------------
(* The calls the model makes *)

\* arrays of 1..n elements of vals (a Monthly Series has length >= 1)
Arrays(vals, n) == UNION {[1..k -> vals] : k \in 1..n}

OptArrays(vals, n) == {None} \cup {Some(a) : a \in Arrays(vals, n)}

PrecipVals == {F(30), NaN}

PetVals == {F(10)}

TempVals == {F(20), NaN}

\* the years the calibration period starts and ends by default
DefaultCalibrationStart == 1981

DefaultCalibrationEnd == 2010

StartYears == {DefaultCalibrationStart - 1, DefaultCalibrationStart}

Scales == 1..MaxScale

SpeiLatitudes == {None, Some(NaN), Some(F(45)), Some(F(95))}

SpeiArgs ==
    [months_scale : Scales,
     precips_mm : Arrays(PrecipVals, MaxArr),
     pet_mm : OptArrays(PetVals, MaxArr),
     temps_celsius : OptArrays(TempVals, MaxArr),
     data_start_year : {None, Some(DefaultCalibrationStart)},
     latitude_degrees : SpeiLatitudes]

SpiGammaArgs ==
    [precips : Arrays(PrecipVals, MaxArr), months_scale : Scales]

SpiPearsonArgs ==
    [precips : Arrays(PrecipVals, MaxArr),
     months_scale : Scales,
     data_start_year : StartYears,
     calibration_year_initial : {DefaultCalibrationStart},
     calibration_year_final : {DefaultCalibrationEnd}]

PetLatitudes ==
    {None, Some(NaN)} \cup
    {Some(F(d)) : d \in {-95, -LatitudeLimit, -45, 45, LatitudeLimit, 95}} \cup
    {Some(<<179, 2>>), Some(<<-179, 2>>)}

PetArgs ==
    [temperature_monthly_celsius : Arrays(TempVals, MaxArr),
     latitude_degrees : PetLatitudes,
     data_start_year : {Some(DefaultCalibrationStart)}]

\* monthly series: value a + b*year + c*month, NaN at the positions of miss
PonSeries(n, a, b, c, miss) ==
    [i \in 1..n |->
        IF (i - 1) \in miss THEN NaN
        ELSE F(a + b * ((i - 1) \div MonthsPerYear) + c * ((i - 1) % MonthsPerYear))]

PonLengths ==
    {MonthsPerYear * y + e : y \in 0..MaxYears, e \in {0, 5}} \ {0}

PonValues ==
    {PonSeries(n, a, b, c, miss) :
        n \in PonLengths, a \in -1..1, b \in 0..1, c \in 0..1,
        miss \in SUBSET {3, MonthsPerYear + 3}}

PonArgs ==
    {[monthly_values |-> v, months_scale |-> k, data_start_year |-> d,
      calibration_start_year |-> d + cs, calibration_end_year |-> d + ce] :
        v \in PonValues, k \in Scales, d \in StartYears,
        cs \in -1..MaxYears, ce \in -2..MaxYears}

\* what thornthwaite.potential_evapotranspiration may do: return an array of
\* the temperatures' length, or (given no start year) raise
TwVals == {F(10), NaN}

ThornthwaiteOutcomes(temps, data_start_year) ==
    LET n == IF temps = None THEN 0 ELSE Len(temps[1])
    IN  {Some([i \in 1..n |-> v]) : v \in TwVals}
        \cup (IF data_start_year = None THEN {None} ELSE {})

\* what a compute.transform_fitted_* may return: at least n values, below,
\* inside and above the valid range, NaN among them
FitVals == <<F(-4), F(4), F(0), NaN, <<-309, 100>>, <<309, 100>>, <<-31, 10>>>>

FitPattern(len, k) ==
    [i \in 1..len |-> FitVals[((k + i - 2) % Len(FitVals)) + 1]]

FitOutcomes(n, may_raise) ==
    {Some(FitPattern(n + pad, k)) : pad \in 0..MaxPad, k \in 1..Len(FitVals)}
    \cup (IF may_raise THEN {None} ELSE {})

---------------------------------------------------------------------------
(* The state machine: one call of one driver *)

Init ==
    /\ pc = "call"
    /\ ret = NoRet
    /\ calls = <<>>
    /\ locals = <<>>
    /\ \/ fn = "spi_gamma" /\ args \in SpiGammaArgs
       \/ fn = "spi_pearson" /\ args \in SpiPearsonArgs
       \/ fn = "spei_gamma" /\ args \in SpeiArgs
       \/ fn = "spei_pearson" /\ args \in SpeiArgs
       \/ fn = "percentage_of_normal" /\ args \in PonArgs
       \/ fn = "pet" /\ args \in PetArgs

Finish(r) ==
    /\ ret' = [exc |-> r.exc, msg |-> r.msg, value |-> r.value]
    /\ calls' = r.calls
    /\ locals' = r.locals
    /\ pc' = "return"
    /\ UNCHANGED <<fn, args>>

CallSpiGamma ==
    /\ pc = "call"
    /\ fn = "spi_gamma"
    /\ \E fit \in FitOutcomes(Len(args.precips), FALSE) :
          Finish(spi_gamma(args.precips, args.months_scale, fit))

CallSpiPearson ==
    /\ pc = "call"
    /\ fn = "spi_pearson"
    /\ \E fit \in FitOutcomes(Len(args.precips), TRUE) :
          Finish(spi_pearson(args.precips, args.months_scale,
                             args.data_start_year,
                             args.calibration_year_initial,
                             args.calibration_year_final, fit))

CallSpeiGamma ==
    /\ pc = "call"
    /\ fn = "spei_gamma"
    /\ \E tw \in ThornthwaiteOutcomes(args.temps_celsius, args.data_start_year),
          fit \in FitOutcomes(Len(args.precips_mm), FALSE) :
          Finish(spei_gamma(args.months_scale, args.precips_mm, args.pet_mm,
                            args.temps_celsius, args.data_start_year,
                            args.latitude_degrees, tw, fit))

CallSpeiPearson ==
    /\ pc = "call"
    /\ fn = "spei_pearson"
    /\ \E tw \in ThornthwaiteOutcomes(args.temps_celsius, args.data_start_year),
          fit \in FitOutcomes(Len(args.precips_mm), TRUE) :
          Finish(spei_pearson(args.months_scale, args.data_start_year,
                              args.precips_mm, args.pet_mm, args.temps_celsius,
                              args.latitude_degrees, tw, fit))

CallPercentageOfNormal ==
    /\ pc = "call"
    /\ fn = "percentage_of_normal"
    /\ Finish(percentage_of_normal(args.monthly_values, args.months_scale,
                                   args.data_start_year,
                                   args.calibration_start_year,
                                   args.calibration_end_year))

CallPet ==
    /\ pc = "call"
    /\ fn = "pet"
    /\ \E tw \in ThornthwaiteOutcomes(Some(args.temperature_monthly_celsius),
                                      args.data_start_year) :
          Finish(pet(args.temperature_monthly_celsius, args.latitude_degrees,
                     args.data_start_year, tw))

Next ==
    \/ CallSpiGamma
    \/ CallSpiPearson
    \/ CallSpeiGamma
    \/ CallSpeiPearson
    \/ CallPercentageOfNormal
    \/ CallPet

Spec == Init /\ [][Next]_vars

---------------------------------------------------------------------------
(* Properties *)

Returned == pc = "return"

Spei == fn \in {"spei_gamma", "spei_pearson"}

\* the calls that compute: Thornthwaite, the Scaler, the fitters
Computation ==
    {"thornthwaite", "sum_to_scale", "transform_fitted_gamma",
     "transform_fitted_pearson"}

Called(names) == \E i \in 1..Len(calls) : calls[i] \in names

\* the driver's own argument validation refused the call
Refused(message) ==
    ret.exc = "ValueError" /\ ret.msg = message /\ ~Called(Computation)

\* C1: spei_gamma and spei_pearson: a call that supplies both pet_mm and
\* temps_celsius ends in a ValueError (incompatible arguments), whatever the
\* other arguments are.
C1_BothSuppliedRaises ==
    (Returned /\ Spei /\ args.pet_mm # None /\ args.temps_celsius # None)
        => Refused("IncompatibleArguments")

C1_Witness ==
    /\ Returned /\ fn = "spei_pearson"
    /\ args.pet_mm # None /\ args.temps_celsius # None
    /\ args.latitude_degrees = Some(F(45)) /\ args.data_start_year # None
    /\ Len(args.precips_mm) = Len(args.temps_celsius[1])
    /\ ret.exc = "ValueError"

\* C2: spei_gamma and spei_pearson: a call that supplies neither pet_mm nor
\* temps_celsius ends in a ValueError raised by the argument validation, before
\* the P - PET subtraction or any scaling or fitting.
C2_NeitherSuppliedRaisesValueError ==
    (Returned /\ Spei /\ args.pet_mm = None /\ args.temps_celsius = None)
        => (ret.exc = "ValueError" /\ ~Called(Computation))

\* C3: temperature supplied, PET not: spei_gamma raises a ValueError if the
\* latitude or the start year is absent, spei_pearson if the latitude is
\* absent; the PET helper is not called.
C3_TemperatureNeedsLatitudeAndYear ==
    (Returned /\ Spei /\ args.temps_celsius # None /\ args.pet_mm = None
       /\ \/ args.latitude_degrees = None
          \/ (fn = "spei_gamma" /\ args.data_start_year = None))
        => (Refused("MissingArguments") /\ ~Called({"pet"}))

C3_Witness ==
    /\ Returned /\ fn = "spei_gamma"
    /\ args.temps_celsius # None /\ args.pet_mm = None
    /\ args.latitude_degrees = Some(F(45)) /\ args.data_start_year = None
    /\ Len(args.precips_mm) = Len(args.temps_celsius[1])
    /\ ret.exc = "ValueError" /\ calls = <<>>

\* C4: spei_gamma: PET supplied, temperature not, and the latitude or the start
\* year (or both) supplied: a ValueError, whether or not the array lengths match.
C4_GammaPetRefusesLatitudeAndYear ==
    (Returned /\ fn = "spei_gamma"
       /\ args.pet_mm # None /\ args.temps_celsius = None
       /\ (args.latitude_degrees # None \/ args.data_start_year # None))
        => Refused("ExtraneousArguments")

C4_Witness ==
    /\ Returned /\ fn = "spei_gamma"
    /\ args.pet_mm # None /\ args.temps_celsius = None
    /\ args.latitude_degrees = None /\ args.data_start_year # None
    /\ Len(args.precips_mm) = Len(args.pet_mm[1])
    /\ ret.exc = "ValueError"

PetPattern ==
    /\ args.pet_mm # None /\ args.temps_celsius = None
    /\ args.latitude_degrees = None
    /\ fn = "spei_gamma" => args.data_start_year = None

TemperaturePattern ==
    /\ args.temps_celsius # None /\ args.pet_mm = None
    /\ args.latitude_degrees # None /\ args.data_start_year # None

\* C6: spei_gamma and spei_pearson, on either valid call pattern: if the
\* precipitation length differs from the length of the supplied PET or
\* temperature series, the call ends in a ValueError (incompatible arrays) and
\* neither the PET helper nor the Scaler is called.
C6_LengthMismatchRaises ==
    /\ (Returned /\ Spei /\ PetPattern
          /\ Len(args.precips_mm) # Len(args.pet_mm[1]))
         => (Refused("IncompatibleArrays") /\ ~Called({"pet"}))
    /\ (Returned /\ Spei /\ TemperaturePattern
          /\ Len(args.precips_mm) # Len(args.temps_celsius[1]))
         => (Refused("IncompatibleArrays") /\ ~Called({"pet"}))

C6_Witness ==
    /\ Returned /\ fn = "spei_pearson" /\ TemperaturePattern
    /\ Len(args.precips_mm) < Len(args.temps_celsius[1])
    /\ args.latitude_degrees = Some(F(45))
    /\ ret.msg = "IncompatibleArrays"

\* the messages of the ValueErrors the drivers and the PET helper raise
ValidationMessages ==
    {"IncompatibleArguments", "MissingArguments", "ExtraneousArguments",
     "IncompatibleArrays", "InvalidStartYear", "InvalidCalibrationPeriod",
     "InvalidLatitude"}

\* C7: fail fast: when spei_gamma, spei_pearson, percentage_of_normal or pet
\* ends in one of the validation ValueErrors, no call of the Thornthwaite
\* collaborator, of sum_to_scale or of a transform_fitted_* has been made.
C7_FailFast ==
    (Returned /\ ret.exc = "ValueError" /\ ret.msg \in ValidationMessages)
        => ~Called(Computation)

C7_Witness ==
    /\ Returned /\ fn = "spei_gamma" /\ TemperaturePattern
    /\ Len(args.precips_mm) = Len(args.temps_celsius[1])
    /\ ~AllNaN(args.temps_celsius[1])
    /\ ret.msg = "InvalidLatitude" /\ calls = <<"pet">>

\* C8: percentage_of_normal refuses, before scaling, the calls whose
\* calibration start year is before the data start year and the calls whose
\* calibration span in months exceeds the series length; it accepts every
\* other call.
C8_CalibrationValidation ==
    (Returned /\ fn = "percentage_of_normal")
        => LET before == args.calibration_start_year < args.data_start_year
               span == (args.calibration_end_year
                          - args.calibration_start_year + 1) * 12
               exceeds == span > Len(args.monthly_values)
           IN  IF before \/ exceeds
               THEN ret.exc = "ValueError" /\ calls = <<>>
               ELSE ret.exc = "none"

C8_Witness ==
    /\ Returned /\ fn = "percentage_of_normal"
    /\ args.calibration_start_year > args.data_start_year
    /\ (args.calibration_end_year - args.calibration_start_year + 1) * 12
           > Len(args.monthly_values)
    /\ (args.calibration_end_year - args.calibration_start_year + 1) * 12
           <= Len(args.monthly_values) + 7
    /\ ret.msg = "InvalidCalibrationPeriod"

\* an accepted percentage_of_normal call
Accepted == Returned /\ fn = "percentage_of_normal" /\ ret.exc = "none"

\* the average of the calendar month of 1-based position i
AverageOf(i) == locals.calendar_month_averages[((i - 1) % 12) + 1]

Positive(x) == ~IsNaN(x) /\ x[2] > 0 /\ x[1] > 0

\* q is the quotient x / y of two numbers, y # 0
IsQuotient(q, x, y) ==
    ~IsNaN(q) /\ q[2] > 0 /\ q[1] * x[2] * y[1] = x[1] * y[2] * q[2]

\* the output at position i is scaled_sums[i] / average where the average is
\* strictly positive (missing if the scaled sum is), and missing otherwise
OutputFollowsAverage(i) ==
    LET scaled == locals.months_scale_sums[i]
    IN  IF Positive(AverageOf(i))
        THEN IF IsNaN(scaled) THEN IsNaN(ret.value[i])
             ELSE IsQuotient(ret.value[i], scaled, AverageOf(i))
        ELSE IsNaN(ret.value[i])

\* C9: for every accepted percentage_of_normal call and every index i:
\* output[i] = scaled_sums[i] / calendar_month_average[i mod 12] when that
\* average is strictly positive, a missing marker when the average is zero,
\* negative or missing; a missing scaled_sums[i] gives a missing output[i].
C9_PercentageOfNormalValues ==
    Accepted =>
        \A i \in 1..Len(locals.months_scale_sums) :
            /\ OutputFollowsAverage(i)
            /\ IsNaN(locals.months_scale_sums[i]) => IsNaN(ret.value[i])

C9_Witness ==
    /\ Accepted
    /\ \E i \in 1..Len(ret.value) :
          Positive(AverageOf(i)) /\ ~IsNaN(ret.value[i]) /\ ret.value[i] # F(1)
    /\ \E i \in 1..Len(ret.value) :
          ~IsNaN(AverageOf(i)) /\ AverageOf(i)[1] < 0
             /\ ~IsNaN(locals.months_scale_sums[i])
    /\ \E i \in 1..Len(ret.value) :
          AverageOf(i) = F(0) /\ ~IsNaN(locals.months_scale_sums[i])
    /\ \E i \in 1..Len(ret.value) : IsNaN(AverageOf(i))
    /\ \E i \in 1..Len(ret.value) : IsNaN(locals.months_scale_sums[i])

\* a 24-month series calibrated over both of its years
TwoYearCase ==
    /\ Returned /\ fn = "percentage_of_normal"
    /\ Len(args.monthly_values) = 24
    /\ args.calibration_start_year = args.data_start_year
    /\ args.calibration_end_year = args.data_start_year + 1

\* C10 as claimed: in the two-year case, for every scale and calendar month m
\* the average is the arithmetic mean of the scaled values at m and m+12, and
\* the output is scaled_value / average at every position.
C10_AverageIsMeanOfBoth ==
    TwoYearCase =>
        /\ ret.exc = "none"
        /\ \A m \in 1..12 :
              locals.calendar_month_averages[m] =
                  FDiv(FAdd(locals.months_scale_sums[m],
                            locals.months_scale_sums[m + 12]), F(2))
        /\ \A i \in 1..24 :
              ret.value[i] = FDiv(locals.months_scale_sums[i], AverageOf(i))

\* avg is the mean of the values of <<x, y>> that are not missing
IsMeanOfPresent(avg, x, y) ==
    IF ~IsNaN(x) /\ ~IsNaN(y)
    THEN /\ ~IsNaN(avg) /\ avg[2] > 0
         /\ 2 * avg[1] * x[2] * y[2] = avg[2] * (x[1] * y[2] + y[1] * x[2])
    ELSE IF ~IsNaN(x) THEN avg = x
    ELSE IF ~IsNaN(y) THEN avg = y
    ELSE IsNaN(avg)

\* C10 as amended: in the two-year case, for every scale and calendar month m
\* the average is the mean of those of the scaled values at m and m+12 that are
\* not missing (missing if both are), so the arithmetic mean of the two only
\* where neither is missing; the output is scaled_value / average where the
\* average is strictly positive and missing elsewhere.
C10_AverageIsMeanOfPresent ==
    TwoYearCase =>
        /\ ret.exc = "none"
        /\ \A m \in 1..12 :
              IsMeanOfPresent(locals.calendar_month_averages[m],
                              locals.months_scale_sums[m],
                              locals.months_scale_sums[m + 12])
        /\ \A i \in 1..24 : OutputFollowsAverage(i)

C10_Witness ==
    /\ TwoYearCase
    /\ args.months_scale = 3
    /\ IsNaN(locals.months_scale_sums[2])
    /\ locals.calendar_month_averages[2] = locals.months_scale_sums[14]
    /\ Positive(locals.calendar_month_averages[2])
    /\ \E m \in 3..12 :
          /\ ~IsNaN(locals.months_scale_sums[m])
          /\ locals.months_scale_sums[m] # locals.months_scale_sums[m + 12]
          /\ ~IsNaN(locals.calendar_month_averages[m])

\* the primary input series of the call
PrimaryInput ==
    IF fn \in {"spi_gamma", "spi_pearson"} THEN args.precips
    ELSE IF Spei THEN args.precips_mm
    ELSE IF fn = "percentage_of_normal" THEN args.monthly_values
    ELSE args.temperature_monthly_celsius

Fitted == fn \in {"spi_gamma", "spi_pearson", "spei_gamma", "spei_pearson"}

\* x is below -3.09, above 3.09 (x = n/d, d > 0)
Below(x) == ~IsNaN(x) /\ 100 * x[1] < -309 * x[2]

Above(x) == ~IsNaN(x) /\ 100 * x[1] > 309 * x[2]

\* C12: clipping: in every successful call of spi_gamma, spi_pearson,
\* spei_gamma and spei_pearson, whatever the fitter returned, each returned
\* element is -3.09 where the fitted value is below -3.09, 3.09 where it is
\* above 3.09, and the fitted value itself (a number of the range or a missing
\* marker) otherwise.
C12_Clipped ==
    (Returned /\ Fitted /\ ret.exc = "none") =>
        \A i \in 1..Len(ret.value) :
            LET x == locals.transformed_fitted_values[i]
                y == ret.value[i]
            IN  /\ Below(x) => y = <<-309, 100>>
                /\ Above(x) => y = <<309, 100>>
                /\ (~Below(x) /\ ~Above(x)) => y = x
                /\ IsNaN(y) \/ (~Below(y) /\ ~Above(y))

C12_Witness ==
    /\ Returned /\ fn = "spei_gamma" /\ ret.exc = "none"
    /\ Len(ret.value) = 2
    /\ locals.transformed_fitted_values[1] = F(-4)
    /\ locals.transformed_fitted_values[2] = F(4)
    /\ ret.value = << <<-309, 100>>, <<309, 100>> >>

\* a call of pet with a latitude (a number or NaN) and temperatures that are
\* not all missing
PetWithTemperatures ==
    /\ Returned /\ fn = "pet"
    /\ ~AllNaN(args.temperature_monthly_celsius)
    /\ args.latitude_degrees # None

\* x lies outside the open interval (-90, 90), x = n/d, d > 0
OutsideOpenRange(x) == x[1] >= 90 * x[2] \/ x[1] <= -90 * x[2]

\* x lies outside the closed interval [-90, 90]
OutsideClosedRange(x) == x[1] > 90 * x[2] \/ x[1] < -90 * x[2]

C14_ClosedRangeAccepted ==
    (PetWithTemperatures /\ ~IsNaN(args.latitude_degrees[1])) =>
        (ret.exc = "ValueError" <=> OutsideClosedRange(args.latitude_degrees[1]))

\* C15: pet, every temperature missing: the input series is returned
\* unchanged for any latitude (out of range, NaN or None included), with no
\* error, no latitude validation and no Thornthwaite call.
C15_AllMissingPassThrough ==
    (Returned /\ fn = "pet" /\ AllNaN(args.temperature_monthly_celsius)) =>
        /\ ret.exc = "none"
        /\ ret.value = args.temperature_monthly_celsius
        /\ calls = <<>>

C15_Witness ==
    /\ Returned /\ fn = "pet"
    /\ AllNaN(args.temperature_monthly_celsius)
    /\ Len(args.temperature_monthly_celsius) = 2
    /\ args.latitude_degrees = Some(F(95))
    /\ ret.exc = "none" /\ ret.value = <<NaN, NaN>>

\* C16: for every percentage_of_normal call that passes validation the
\* calibration window is a non-empty sub-range of the series:
\* 0 <= calibration_start_index < calibration_end_index <= len(monthly_values).
C16_CalibrationWindowInSeries ==
    Accepted =>
        /\ 0 <= locals.calibration_start_index
        /\ locals.calibration_start_index < locals.calibration_end_index
        /\ locals.calibration_end_index <= Len(args.monthly_values)

=============================================================================
